---- MODULE Spec2Model ----
(***************************************************************************)
(* The Plutus Data codec of pkg/blueprint/plutusdata.go: the PlutusData    *)
(* value, its constructors, MarshalCBOR (toCBORBytes) and UnmarshalCBOR    *)
(* (the cbor library's decoding into interface{} followed by               *)
(* plutusDataFromCBORValue).                                               *)
(*                                                                         *)
(* Numbers wider than a machine word of the checker (uint64 constructor    *)
(* indexes and tags, big.Int magnitudes, CBOR head arguments) are          *)
(* big-endian byte sequences without leading zero bytes, so that the       *)
(* 64-bit width and the arbitrary precision of the code are kept.          *)
(***************************************************************************)
EXTENDS Integers, Sequences, FiniteSets, TLC

(***************************************************************************)
(* Natural numbers as big-endian byte sequences (<<>> is 0).               *)
(***************************************************************************)
Max(a, b) == IF a >= b THEN a ELSE b

\* Drop leading zero bytes.
RECURSIVE Strip(_)
Strip(s) == IF s # <<>> /\ Head(s) = 0 THEN Strip(Tail(s)) ELSE s

\* s extended on the left with zero bytes to n bytes (n >= Len(s)).
PadLeft(s, n) == [i \in 1..n |-> IF i <= n - Len(s) THEN 0 ELSE s[i - (n - Len(s))]]

\* The last n bytes of s (all of s when it has fewer).
LastBytes(s, n) == IF Len(s) <= n THEN s ELSE SubSeq(s, Len(s) - n + 1, Len(s))

\* The number n >= 0 of the checker as a byte sequence.
RECURSIVE Nat2Bytes(_)
Nat2Bytes(n) == IF n = 0 THEN <<>> ELSE Append(Nat2Bytes(n \div 256), n % 256)

\* The value of a byte sequence that is small enough for the checker.
RECURSIVE Bytes2Nat(_)
Bytes2Nat(s) == IF s = <<>> THEN 0
                ELSE Bytes2Nat(SubSeq(s, 1, Len(s) - 1)) * 256 + s[Len(s)]

NatAdd(a, b) ==
    LET n == Max(Len(a), Len(b)) + 1
        A == PadLeft(a, n)
        B == PadLeft(b, n)
        carry[i \in 1..(n + 1)] ==
            IF i = n + 1 THEN 0 ELSE (A[i] + B[i] + carry[i + 1]) \div 256
    IN  Strip([i \in 1..n |-> (A[i] + B[i] + carry[i + 1]) % 256])

\* a - b for a >= b.
NatSub(a, b) ==
    LET n == Max(Len(a), Len(b))
        A == PadLeft(a, n)
        B == PadLeft(b, n)
        borrow[i \in 1..(n + 1)] ==
            IF i = n + 1 THEN 0
            ELSE IF A[i] - B[i] - borrow[i + 1] < 0 THEN 1 ELSE 0
    IN  Strip([i \in 1..n |-> (A[i] - B[i] - borrow[i + 1] + 256) % 256])

RECURSIVE LexLess(_, _)
LexLess(a, b) ==
    IF a = <<>> THEN FALSE
    ELSE IF Head(a) # Head(b) THEN Head(a) < Head(b)
    ELSE LexLess(Tail(a), Tail(b))

NatLess(a, b) ==
    IF Len(a) # Len(b) THEN Len(a) < Len(b) ELSE LexLess(a, b)

NatLeq(a, b) == a = b \/ NatLess(a, b)

\* uint64 arithmetic: results are reduced modulo 2^64.
TwoPow64 == <<1, 0, 0, 0, 0, 0, 0, 0, 0>>
MaxUint64 == <<255, 255, 255, 255, 255, 255, 255, 255>>
MaxInt64 == <<127, 255, 255, 255, 255, 255, 255, 255>>
U64Add(a, b) == Strip(LastBytes(NatAdd(a, b), 8))
U64Sub(a, b) == IF NatLess(a, b) THEN NatSub(NatAdd(a, TwoPow64), b) ELSE NatSub(a, b)

\* byte(x >> (8*k)) of a uint64 x.
ByteOf(x, k) == IF Len(x) > k THEN x[Len(x) - k] ELSE 0

(***************************************************************************)
(* The PlutusData value.  A pointer or slice field that is nil is Nil; a   *)
(* field that is set is Some(value), so that an empty non-nil slice        *)
(* (Some(<<>>)) differs from a nil one as it does in the switch of         *)
(* toCBORBytes.  Constr.Fields is only ever measured and ranged over, so   *)
(* it is a plain sequence.  An Integer is a big.Int: sign and magnitude.   *)
(***************************************************************************)
Nil == <<>>
Some(x) == <<x>>
IsNil(o) == o = <<>>
Get(o) == o[1]

PlutusData(constr, integer, byteString, list, map) ==
    [Constr |-> constr, Integer |-> integer, ByteString |-> byteString,
     List |-> list, Map |-> map]

\* PlutusData{}
Zero == PlutusData(Nil, Nil, Nil, Nil, Nil)

ConstrPlutusData(index, fields) == [Index |-> index, Fields |-> fields]

PlutusDataMapEntry(key, value) == [Key |-> key, Value |-> value]

BigInt(neg, mag) == [neg |-> neg, mag |-> mag]

cborTagConstr0 == 121
cborTagConstr6 == 127
cborTagConstrBase == 1280

\* fields is the variadic slice: Nil when called without arguments.
NewConstrPlutusData(index, fields) ==
    [Zero EXCEPT !.Constr =
        Some(ConstrPlutusData(index, IF IsNil(fields) THEN <<>> ELSE Get(fields)))]

\* i is a *big.Int: Nil or Some(BigInt).
NewIntPlutusData(i) == [Zero EXCEPT !.Integer = i]

\* b is a []byte: Nil or Some(bytes).
NewBytesPlutusData(b) == [Zero EXCEPT !.ByteString = b]

NewListPlutusData(items) == [Zero EXCEPT !.List = items]

NewMapPlutusData(entries) == [Zero EXCEPT !.Map = entries]

(***************************************************************************)
(* Encoding.                                                               *)
(***************************************************************************)
\* The cbor library's head of a data item: major type and argument, in the
\* shortest form.
encodeHead(major, arg) ==
    IF Len(arg) = 0 THEN <<major * 32>>
    ELSE IF Len(arg) = 1 /\ arg[1] < 24 THEN <<major * 32 + arg[1]>>
    ELSE IF Len(arg) = 1 THEN <<major * 32 + 24>> \o arg
    ELSE IF Len(arg) = 2 THEN <<major * 32 + 25>> \o arg
    ELSE IF Len(arg) <= 4 THEN <<major * 32 + 26>> \o PadLeft(arg, 4)
    ELSE <<major * 32 + 27>> \o PadLeft(arg, 8)

\* Mutant of marshalBigInt: the encoder left at BigIntConvertNone, which writes
\* every big.Int as a bignum.
marshalBigIntNoConvert(i) ==
    LET bi == IF i.neg THEN NatSub(i.mag, <<1>>) ELSE i.mag
    IN  <<IF i.neg THEN 195 ELSE 194>> \o encodeHead(2, Nat2Bytes(Len(bi))) \o bi

\* em.Marshal(p.Integer) under BigIntConvertShortest.
marshalBigInt(i) ==
    LET bi == IF i.neg THEN NatSub(i.mag, <<1>>) ELSE i.mag
    IN  IF Len(bi) <= 8
        THEN encodeHead(IF i.neg THEN 1 ELSE 0, bi)
        ELSE <<IF i.neg THEN 195 ELSE 194>> \o encodeHead(2, Nat2Bytes(Len(bi))) \o bi

\* em.Marshal(p.ByteString)
marshalBytes(b) == encodeHead(2, Nat2Bytes(Len(b))) \o b

\* The tag of a constructor index, in uint64 arithmetic.
constrTag(index) ==
    IF NatLeq(index, Nat2Bytes(6))
    THEN U64Add(Nat2Bytes(cborTagConstr0), index)
    ELSE U64Sub(U64Add(Nat2Bytes(cborTagConstrBase), index), Nat2Bytes(7))

\* Mutant of tagHeader: the two-byte form for every tag of 24 and above.
tagHeaderWide(tag) ==
    IF NatLess(tag, Nat2Bytes(24)) THEN <<192 + ByteOf(tag, 0)>>
    ELSE <<217, ByteOf(tag, 1), ByteOf(tag, 0)>>

\* The CBOR tag header written for a tag.
tagHeader(tag) ==
    IF NatLess(tag, Nat2Bytes(24)) THEN <<192 + ByteOf(tag, 0)>>
    ELSE IF NatLess(tag, Nat2Bytes(256)) THEN <<216, ByteOf(tag, 0)>>
    ELSE <<217, ByteOf(tag, 1), ByteOf(tag, 0)>>

RECURSIVE toCBORBytes(_)

\* buf.Write of the encoding of each element of a slice, in order.
RECURSIVE writeAll(_)
writeAll(items) ==
    IF items = <<>> THEN <<>>
    ELSE toCBORBytes(Head(items)) \o writeAll(Tail(items))

RECURSIVE writeEntries(_)
writeEntries(entries) ==
    IF entries = <<>> THEN <<>>
    ELSE toCBORBytes(Head(entries).Key) \o toCBORBytes(Head(entries).Value)
         \o writeEntries(Tail(entries))

\* Mutant of constrBytes: the empty field array framed like a non-empty one.
constrBytesIndefinite(c) ==
    tagHeader(constrTag(c.Index)) \o <<159>> \o writeAll(c.Fields) \o <<255>>

constrBytes(c) ==
    tagHeader(constrTag(c.Index))
    \o (IF Len(c.Fields) = 0 THEN <<128>>
        ELSE <<159>> \o writeAll(c.Fields) \o <<255>>)

listBytes(items) == <<159>> \o writeAll(items) \o <<255>>

mapBytes(entries) ==
    IF Len(entries) = 0 THEN <<160>>
    ELSE <<191>> \o writeEntries(entries) \o <<255>>

defaultBytes == <<216, 121, 159, 255>>

\* Mutant of toCBORBytes: the Integer case before the Constr case.
toCBORBytesIntegerFirst(p) ==
    IF ~IsNil(p.Integer) THEN marshalBigInt(Get(p.Integer))
    ELSE IF ~IsNil(p.Constr) THEN constrBytes(Get(p.Constr))
    ELSE IF ~IsNil(p.ByteString) THEN marshalBytes(Get(p.ByteString))
    ELSE IF ~IsNil(p.List) THEN listBytes(Get(p.List))
    ELSE IF ~IsNil(p.Map) THEN mapBytes(Get(p.Map))
    ELSE defaultBytes

toCBORBytes(p) ==
    IF ~IsNil(p.Constr) THEN constrBytes(Get(p.Constr))
    ELSE IF ~IsNil(p.Integer) THEN marshalBigInt(Get(p.Integer))
    ELSE IF ~IsNil(p.ByteString) THEN marshalBytes(Get(p.ByteString))
    ELSE IF ~IsNil(p.List) THEN listBytes(Get(p.List))
    ELSE IF ~IsNil(p.Map) THEN mapBytes(Get(p.Map))
    ELSE defaultBytes

MarshalCBOR(p) == toCBORBytes(p)

\* Mutant of Equals: the two values compared field by field.
EqualsDeep(a, b) == a = b

\* p.Equals(other): the two encodings compared (MarshalCBOR returns no error
\* for a value whose Integer and ByteString the library can encode).
Equals(a, b) == MarshalCBOR(a) = MarshalCBOR(b)

\* The variant the switch selects (the index of a constructor left out).
plutusDataTypeString(pd) ==
    IF ~IsNil(pd.Constr) THEN "constructor"
    ELSE IF ~IsNil(pd.Integer) THEN "integer"
    ELSE IF ~IsNil(pd.ByteString) THEN "bytes"
    ELSE IF ~IsNil(pd.List) THEN "list"
    ELSE IF ~IsNil(pd.Map) THEN "map"
    ELSE "null"

(***************************************************************************)
(* Decoding, first half: dm.Unmarshal(data, &raw) of the cbor library      *)
(* (fxamacker/cbor v2, default options but BigIntDecodePointer) into an    *)
(* interface{} value.  A raw value is a record whose field t names its Go  *)
(* type.                                                                   *)
(***************************************************************************)
RawUint(n) == [t |-> "uint64", n |-> n]
RawInt64(i) == [t |-> "int64", i |-> i]
RawBigInt(i) == [t |-> "*big.Int", i |-> i]
RawBytes(b) == [t |-> "[]byte", b |-> b]
RawArray(items) == [t |-> "[]interface{}", items |-> items]
RawMap(entries) == [t |-> "map[interface{}]interface{}", entries |-> entries]
RawTag(number, content) == [t |-> "cbor.Tag", Number |-> number, Content |-> content]
RawNil == [t |-> "nil"]
\* string, bool, float64, cbor.SimpleValue, time.Time: their content is not kept.
RawOther(type) == [t |-> type]

Bad == [ok |-> FALSE]
Good(val, rest) == [ok |-> TRUE, val |-> val, rest |-> rest]

\* The head of a data item: major type, additional information, argument.
readHead(b) ==
    IF b = <<>> THEN Bad
    ELSE LET major == Head(b) \div 32
             ai == Head(b) % 32
             n == CASE ai = 24 -> 1 [] ai = 25 -> 2 [] ai = 26 -> 4 [] ai = 27 -> 8
                    [] OTHER -> 0
         IN  IF ai \in 28..30 THEN Bad
             ELSE IF ai = 31
             THEN IF major \in {2, 3, 4, 5, 7}
                  THEN [ok |-> TRUE, major |-> major, ai |-> ai, arg |-> <<>>,
                        indef |-> TRUE, rest |-> Tail(b)]
                  ELSE Bad
             ELSE IF Len(b) < 1 + n THEN Bad
             ELSE [ok |-> TRUE, major |-> major, ai |-> ai,
                   arg |-> IF ai < 24 THEN Strip(<<ai>>) ELSE Strip(SubSeq(b, 2, 1 + n)),
                   raw |-> SubSeq(b, 2, 1 + n),
                   indef |-> FALSE, rest |-> SubSeq(b, 2 + n, Len(b))]

\* A definite length that the remaining input can hold, or -1.
lengthWithin(arg, rest) ==
    IF Len(arg) > 2 THEN -1
    ELSE IF Bytes2Nat(arg) > Len(rest) THEN -1 ELSE Bytes2Nat(arg)

\* The chunks of an indefinite-length string of the given major type, up to
\* the break.
RECURSIVE parseChunks(_, _)
parseChunks(major, b) ==
    IF b = <<>> THEN Bad
    ELSE IF Head(b) = 255 THEN Good(<<>>, Tail(b))
    ELSE LET h == readHead(b)
         IN  IF ~h.ok \/ h.major # major \/ h.indef THEN Bad
             ELSE LET n == lengthWithin(h.arg, h.rest)
                  IN  IF n < 0 THEN Bad
                      ELSE LET more == parseChunks(major, SubSeq(h.rest, n + 1, Len(h.rest)))
                           IN  IF ~more.ok THEN Bad
                               ELSE Good(SubSeq(h.rest, 1, n) \o more.val, more.rest)

\* Go map key: can the decoded key be hashed (a byte string becomes a
\* cbor.ByteString under the default MapKeyByteStringAllowed).
RECURSIVE isHashableValue(_)
isHashableValue(k) ==
    CASE k.t \in {"[]interface{}", "map[interface{}]interface{}"} -> FALSE
      [] k.t = "cbor.Tag" -> isHashableValue(k.Content)
      [] OTHER -> TRUE

\* Go's == on two map keys.
RECURSIVE keyEqual(_, _)
keyEqual(a, b) ==
    /\ a.t = b.t
    /\ CASE a.t = "uint64" -> a.n = b.n
         [] a.t = "int64" -> a.i = b.i
         [] a.t = "[]byte" -> a.b = b.b
         [] a.t = "nil" -> TRUE
         [] a.t = "cbor.Tag" -> a.Number = b.Number /\ keyEqual(a.Content, b.Content)
         [] OTHER -> FALSE  \* *big.Int: two pointers; content not kept for the rest

\* m[k] = e on the entries of a Go map.
mapStore(entries, k, e) ==
    IF \E i \in 1..Len(entries) : keyEqual(entries[i].k, k)
    THEN [i \in 1..Len(entries) |->
            IF keyEqual(entries[i].k, k) THEN [k |-> entries[i].k, v |-> e]
            ELSE entries[i]]
    ELSE Append(entries, [k |-> k, v |-> e])

tagNumSelfDescribedCBOR == <<217, 247>>

RECURSIVE parse(_), parseArray(_, _, _), parseMap(_, _, _)

\* One data item at the start of b.
parse(b) ==
    LET h == readHead(b)
    IN  IF ~h.ok THEN Bad
        ELSE CASE h.major = 0 -> Good(RawUint(h.arg), h.rest)
          [] h.major = 1 ->
                IF NatLess(MaxInt64, h.arg)
                THEN Good(RawBigInt(BigInt(TRUE, NatAdd(h.arg, <<1>>))), h.rest)
                ELSE Good(RawInt64(BigInt(TRUE, NatAdd(h.arg, <<1>>))), h.rest)
          [] h.major \in {2, 3} ->
                LET s == IF h.indef THEN parseChunks(h.major, h.rest)
                         ELSE LET n == lengthWithin(h.arg, h.rest)
                              IN  IF n < 0 THEN Bad
                                  ELSE Good(SubSeq(h.rest, 1, n),
                                            SubSeq(h.rest, n + 1, Len(h.rest)))
                IN  IF ~s.ok THEN Bad
                    ELSE IF h.major = 2 THEN Good(RawBytes(s.val), s.rest)
                    ELSE Good(RawOther("string"), s.rest)
          [] h.major = 4 ->
                IF h.indef THEN parseArray(h.rest, -1, <<>>)
                ELSE LET n == lengthWithin(h.arg, h.rest)
                     IN  IF n < 0 THEN Bad ELSE parseArray(h.rest, n, <<>>)
          [] h.major = 5 ->
                IF h.indef THEN parseMap(h.rest, -1, <<>>)
                ELSE LET n == lengthWithin(h.arg, h.rest)
                     IN  IF n < 0 THEN Bad ELSE parseMap(h.rest, n, <<>>)
          [] h.major = 6 ->
                LET c == parse(h.rest)
                    ct == IF h.rest = <<>> THEN -1 ELSE Head(h.rest) \div 32
                IN  IF ~c.ok THEN Bad
                    ELSE IF h.arg = tagNumSelfDescribedCBOR THEN c
                    ELSE IF h.arg \in {<<2>>, <<3>>}
                    THEN IF ct # 2 THEN Bad
                         ELSE IF h.arg = <<2>>
                         THEN Good(RawBigInt(BigInt(FALSE, Strip(c.val.b))), c.rest)
                         ELSE Good(RawBigInt(BigInt(TRUE, NatAdd(Strip(c.val.b), <<1>>))),
                                   c.rest)
                    ELSE IF h.arg = <<>>
                    THEN IF ct # 3 THEN Bad ELSE Good(RawOther("time.Time"), c.rest)
                    ELSE IF h.arg = <<1>>
                    THEN IF ct \notin {0, 1, 7} \/ c.val.t \notin {"uint64", "int64", "*big.Int", "float64"}
                         THEN Bad ELSE Good(RawOther("time.Time"), c.rest)
                    ELSE Good(RawTag(h.arg, c.val), c.rest)
          [] OTHER ->  \* major type 7
                IF h.indef THEN Bad  \* a break outside an indefinite-length item
                ELSE IF h.ai \in {20, 21} THEN Good(RawOther("bool"), h.rest)
                ELSE IF h.ai \in {22, 23} THEN Good(RawNil, h.rest)
                ELSE IF h.ai \in {25, 26, 27} THEN Good(RawOther("float64"), h.rest)
                ELSE IF h.ai = 24 /\ Bytes2Nat(h.arg) < 32 THEN Bad
                ELSE Good(RawOther("cbor.SimpleValue"), h.rest)

\* The elements of an array: n of them, or up to the break when n < 0.
parseArray(b, n, acc) ==
    IF n = 0 THEN Good(RawArray(acc), b)
    ELSE IF b = <<>> THEN Bad
    ELSE IF n < 0 /\ Head(b) = 255 THEN Good(RawArray(acc), Tail(b))
    ELSE LET e == parse(b)
         IN  IF ~e.ok THEN Bad
             ELSE parseArray(e.rest, IF n < 0 THEN n ELSE n - 1, Append(acc, e.val))

\* The pairs of a map, stored into a Go map as they are read.
parseMap(b, n, acc) ==
    IF n = 0 THEN Good(RawMap(acc), b)
    ELSE IF b = <<>> THEN Bad
    ELSE IF n < 0 /\ Head(b) = 255 THEN Good(RawMap(acc), Tail(b))
    ELSE LET k == parse(b)
         IN  IF ~k.ok THEN Bad
             ELSE IF ~isHashableValue(k.val) THEN Bad
             ELSE LET e == parse(k.rest)
                  IN  IF ~e.ok THEN Bad
                      ELSE parseMap(e.rest, IF n < 0 THEN n ELSE n - 1,
                                    mapStore(acc, k.val, e.val))

\* What is left of b after n items none of which, at any depth, has an
\* indefinite length.
RECURSIVE skipDefinite(_, _)
skipDefinite(b, n) ==
    IF n = 0 THEN Good(<<>>, b)
    ELSE LET h == readHead(b)
             k == lengthWithin(h.arg, h.rest)
         IN  IF ~h.ok THEN Bad
             ELSE IF h.indef THEN Bad
             ELSE CASE h.major \in {2, 3} ->
                        IF k < 0 THEN Bad
                        ELSE skipDefinite(SubSeq(h.rest, k + 1, Len(h.rest)), n - 1)
                    [] h.major = 4 -> IF k < 0 THEN Bad ELSE skipDefinite(h.rest, n - 1 + k)
                    [] h.major = 5 -> IF k < 0 THEN Bad ELSE skipDefinite(h.rest, n - 1 + 2 * k)
                    [] h.major = 6 -> skipDefinite(h.rest, n)
                    [] OTHER -> skipDefinite(h.rest, n - 1)

\* Mutant of Unmarshal: the decoding mode built with IndefLengthForbidden.
UnmarshalIndefLengthForbidden(data) ==
    LET r == parse(data)
    IN  IF r.ok /\ r.rest = <<>> /\ skipDefinite(data, 1).ok THEN r ELSE Bad

\* dm.Unmarshal(data, &raw): one well-formed item and nothing after it.
Unmarshal(data) ==
    LET r == parse(data)
    IN  IF r.ok /\ r.rest = <<>> THEN r ELSE Bad

(***************************************************************************)
(* Decoding, second half: plutusDataFromCBORValue.  Ranging over a Go map  *)
(* visits its entries in an order the language leaves unspecified, so the  *)
(* conversion is the set of its possible outcomes, one per order.  An      *)
(* outcome is the returned error ("" for nil) and the returned value.      *)
(***************************************************************************)
NoError == ""
UnsupportedTag == "unsupported CBOR tag"
NotAnArray == "constructor content is not an array"
UnsupportedType == "unsupported CBOR type"
CborError == "cbor"

Outcome(err, val) == [err |-> err, val |-> val]

\* The orders in which a range over a map of n entries can visit them.
Orders(n) == {f \in [1..n -> 1..n] : \A i, j \in 1..n : f[i] = f[j] => i = j}

RECURSIVE plutusDataFromCBORValue(_), fromItems(_), fromEntries(_)

\* The loop over the items of an array: the converted items, or the first error.
fromItems(items) ==
    IF items = <<>> THEN {Outcome(NoError, <<>>)}
    ELSE UNION {IF o.err # NoError THEN {Outcome(o.err, <<>>)}
                ELSE {IF r.err # NoError THEN r
                      ELSE Outcome(NoError, <<o.val>> \o r.val) : r \in fromItems(Tail(items))}
                : o \in plutusDataFromCBORValue(Head(items))}

\* The loop over the entries of a map, taken in the given order.
fromEntries(entries) ==
    IF entries = <<>> THEN {Outcome(NoError, <<>>)}
    ELSE UNION {IF k.err # NoError THEN {Outcome(k.err, <<>>)}
                ELSE UNION {IF e.err # NoError THEN {Outcome(e.err, <<>>)}
                            ELSE {IF r.err # NoError THEN r
                                  ELSE Outcome(NoError,
                                          <<PlutusDataMapEntry(k.val, e.val)>> \o r.val)
                                  : r \in fromEntries(Tail(entries))}
                            : e \in plutusDataFromCBORValue(Head(entries).v)}
                : k \in plutusDataFromCBORValue(Head(entries).k)}

\* Mutant of tagIndex: the second range taken for every tag outside the
\* first (the default case of the switch left out).
tagIndexNoDefault(number) ==
    IF NatLeq(Nat2Bytes(cborTagConstr0), number) /\ NatLeq(number, Nat2Bytes(cborTagConstr6))
    THEN Some(NatSub(number, Nat2Bytes(cborTagConstr0)))
    ELSE Some(U64Add(U64Sub(number, Nat2Bytes(cborTagConstrBase)), Nat2Bytes(7)))

\* The constructor index of a tag number, or Nil for an unsupported tag.
tagIndex(number) ==
    IF NatLeq(Nat2Bytes(cborTagConstr0), number) /\ NatLeq(number, Nat2Bytes(cborTagConstr6))
    THEN Some(NatSub(number, Nat2Bytes(cborTagConstr0)))
    ELSE IF NatLeq(Nat2Bytes(cborTagConstrBase), number)
    THEN Some(U64Add(NatSub(number, Nat2Bytes(cborTagConstrBase)), Nat2Bytes(7)))
    ELSE Nil

\* Mutant of contentItems: the ok of the type assertion ignored, which
\* leaves a nil slice of fields.
contentItemsUnchecked(content) ==
    IF content.t = "[]interface{}" THEN Some(content.items) ELSE Some(<<>>)

\* content, ok := val.Content.([]interface{}): the items, or Nil when the
\* content is no array.
contentItems(content) ==
    IF content.t = "[]interface{}" THEN Some(content.items) ELSE Nil

\* Mutant of fromNil: null given to the default case.
fromNilUnsupported == {Outcome(UnsupportedType, Zero)}

\* case nil: Void/Unit, constructor 0 with an empty, non-nil slice of fields.
fromNil ==
    {Outcome(NoError, PlutusData(Some(ConstrPlutusData(<<>>, <<>>)), Nil, Nil, Nil, Nil))}

plutusDataFromCBORValue(val) ==
    CASE val.t = "cbor.Tag" ->
            IF IsNil(tagIndex(val.Number)) THEN {Outcome(UnsupportedTag, Zero)}
            ELSE IF IsNil(contentItems(val.Content)) THEN {Outcome(NotAnArray, Zero)}
            ELSE {IF f.err # NoError THEN Outcome(f.err, Zero)
                  ELSE Outcome(NoError,
                          PlutusData(Some(ConstrPlutusData(Get(tagIndex(val.Number)), f.val)),
                                     Nil, Nil, Nil, Nil))
                  : f \in fromItems(Get(contentItems(val.Content)))}
      [] val.t = "*big.Int" -> {Outcome(NoError, PlutusData(Nil, Some(val.i), Nil, Nil, Nil))}
      [] val.t = "int64" -> {Outcome(NoError, PlutusData(Nil, Some(val.i), Nil, Nil, Nil))}
      [] val.t = "uint64" ->
            {Outcome(NoError, PlutusData(Nil, Some(BigInt(FALSE, val.n)), Nil, Nil, Nil))}
      [] val.t = "[]byte" -> {Outcome(NoError, PlutusData(Nil, Nil, Some(val.b), Nil, Nil))}
      [] val.t = "[]interface{}" ->
            {IF f.err # NoError THEN Outcome(f.err, Zero)
             ELSE Outcome(NoError, PlutusData(Nil, Nil, Nil, Some(f.val), Nil))
             : f \in fromItems(val.items)}
      [] val.t = "map[interface{}]interface{}" ->
            UNION {{IF f.err # NoError THEN Outcome(f.err, Zero)
                    ELSE Outcome(NoError, PlutusData(Nil, Nil, Nil, Nil, Some(f.val)))
                    : f \in fromEntries([i \in 1..Len(val.entries) |-> val.entries[order[i]]])}
                   : order \in Orders(Len(val.entries))}
      [] val.t = "nil" -> fromNil
      [] OTHER -> {Outcome(UnsupportedType, Zero)}

\* Mutant of store: the receiver assigned before the error is looked at.
storeAlways(receiver, o) == o.val

\* *p = pd, reached only when neither dm.Unmarshal nor the conversion
\* returned an error.
store(receiver, o) == IF o.err = NoError THEN o.val ELSE receiver

\* The outcomes of p.UnmarshalCBOR(data): the error returned and the value to
\* store in the receiver when the error is nil.
UnmarshalCBOR(data) ==
    LET raw == Unmarshal(data)
    IN  IF ~raw.ok THEN {Outcome(CborError, Zero)}
        ELSE plutusDataFromCBORValue(raw.val)

(***************************************************************************)
(* Hexadecimal text.  A string is the sequence of the codes of its         *)
(* characters: "0" is 48, "9" is 57, "A" is 65, "F" is 70, "a" is 97 and   *)
(* "f" is 102.                                                             *)
(***************************************************************************)
\* One digit of fmt.Sprintf("%x", data).
hexDigit(n) == IF n < 10 THEN 48 + n ELSE 97 + (n - 10)

\* p.ToHex(): two lower-case digits for every byte of the encoding.
RECURSIVE sprintfHex(_)
sprintfHex(b) ==
    IF b = <<>> THEN <<>>
    ELSE <<hexDigit(Head(b) \div 16), hexDigit(Head(b) % 16)>> \o sprintfHex(Tail(b))

ToHex(x) == sprintfHex(MarshalCBOR(x))

HexOddLength == "hex string has odd length"
HexInvalidCharacter == "invalid hex character"

\* The value of a digit, or -1 for a character that is none.
hexValue(c) ==
    IF c >= 48 /\ c <= 57 THEN c - 48
    ELSE IF c >= 97 /\ c <= 102 THEN c - 97 + 10
    ELSE IF c >= 65 /\ c <= 70 THEN c - 65 + 10
    ELSE -1

\* The loop of hexDecode over the pairs of digits.
RECURSIVE hexDecodePairs(_)
hexDecodePairs(s) ==
    IF s = <<>> THEN [err |-> NoError, bytes |-> <<>>]
    ELSE IF hexValue(s[1]) < 0 \/ hexValue(s[2]) < 0
    THEN [err |-> HexInvalidCharacter, bytes |-> <<>>]
    ELSE LET more == hexDecodePairs(SubSeq(s, 3, Len(s)))
         IN  IF more.err # NoError THEN more
             ELSE [err |-> NoError,
                   bytes |-> <<(hexValue(s[1]) * 16 + hexValue(s[2])) % 256>> \o more.bytes]

hexDecode(s) ==
    IF Len(s) % 2 # 0 THEN [err |-> HexOddLength, bytes |-> <<>>]
    ELSE hexDecodePairs(s)

\* FromHex(hex): the outcomes, an error and the zero value or no error and
\* the value decoded into a new receiver.
FromHex(hex) ==
    LET d == hexDecode(hex)
    IN  IF d.err # NoError THEN {Outcome(d.err, Zero)}
        ELSE {IF o.err # NoError THEN Outcome(o.err, Zero)
              ELSE Outcome(NoError, store(Zero, o)) : o \in UnmarshalCBOR(d.bytes)}

(***************************************************************************)
(* Schemas of a blueprint.  The $ref of a schema is the sequence of the    *)
(* codes of its characters ("#" is 35, "/" is 47, "~" is 126), since       *)
(* RefName rewrites it; the other strings are only compared.  A pointer    *)
(* field is Nil or Some of what it points to.                              *)
(***************************************************************************)
Schema(ref, title, dataType, items, keys, values, index, fields, anyOf) ==
    [Ref |-> ref, Title |-> title, DataType |-> dataType, Items |-> items, Keys |-> keys,
     Values |-> values, Index |-> index, Fields |-> fields, AnyOf |-> anyOf]

\* "#/definitions/"
definitionsPrefix == <<35, 47, 100, 101, 102, 105, 110, 105, 116, 105, 111, 110, 115, 47>>

HasPrefix(s, prefix) == Len(s) >= Len(prefix) /\ SubSeq(s, 1, Len(prefix)) = prefix

\* strings.TrimPrefix
TrimPrefix(s, prefix) ==
    IF HasPrefix(s, prefix) THEN SubSeq(s, Len(prefix) + 1, Len(s)) ELSE s

\* strings.ReplaceAll for a non-empty old: the occurrences of old from left
\* to right, none overlapping another.
RECURSIVE ReplaceAll(_, _, _)
ReplaceAll(s, old, new) ==
    IF Len(s) < Len(old) THEN s
    ELSE IF HasPrefix(s, old)
    THEN new \o ReplaceAll(SubSeq(s, Len(old) + 1, Len(s)), old, new)
    ELSE <<Head(s)>> \o ReplaceAll(Tail(s), old, new)

IsRef(s) == s.Ref # <<>>

\* Mutant of RefName: "~0" replaced before "~1".
RefNameTildeFirst(s) ==
    IF ~IsRef(s) THEN <<>>
    ELSE ReplaceAll(ReplaceAll(TrimPrefix(s.Ref, definitionsPrefix), <<126, 48>>, <<126>>),
                    <<126, 49>>, <<47>>)

RefName(s) ==
    IF ~IsRef(s) THEN <<>>
    ELSE ReplaceAll(ReplaceAll(TrimPrefix(s.Ref, definitionsPrefix), <<126, 49>>, <<47>>),
                    <<126, 48>>, <<126>>)

IsConstructor(s) == s.DataType = "constructor"

\* Mutant of IsEnum: an enum has several constructors.
IsEnumMultiple(s) == Len(s.AnyOf) > 1

IsEnum(s) == Len(s.AnyOf) > 0

\* Mutant of IsUnit: the index of the constructor is not looked at.
IsUnitAnyIndex(s) ==
    IF Len(s.AnyOf) = 1
    THEN LET c == s.AnyOf[1] IN IsConstructor(c) /\ Len(c.Fields) = 0
    ELSE FALSE

IsUnit(s) ==
    IF Len(s.AnyOf) = 1
    THEN LET c == s.AnyOf[1]
         IN  IsConstructor(c) /\ ~IsNil(c.Index) /\ Get(c.Index) = 0 /\ Len(c.Fields) = 0
    ELSE FALSE

IsBoolean(s) ==
    IF Len(s.AnyOf) # 2 THEN FALSE
    ELSE s.AnyOf[1].Title = "False" /\ s.AnyOf[2].Title = "True"

IsOption(s) ==
    IF Len(s.AnyOf) # 2 THEN FALSE
    ELSE s.AnyOf[1].Title = "Some" /\ s.AnyOf[2].Title = "None"

\* The pointer OptionInnerType returns: Nil or Some of Some's first field.
OptionInnerType(s) ==
    IF ~IsOption(s) THEN Nil
    ELSE LET some == s.AnyOf[1]
         IN  IF Len(some.Fields) > 0 THEN Some(some.Fields[1]) ELSE Nil

IsSingleConstructor(s) == Len(s.AnyOf) = 1 /\ IsConstructor(s.AnyOf[1])

(***************************************************************************)
(* Bounds and inputs.                                                      *)
(***************************************************************************)
\* The largest number of nodes of a value passed as an argument, counting a
\* value and each of its items, fields and map values (a map key is an atom).
MaxNodes == 3

MinusOne == BigInt(TRUE, <<1>>)
Int63 == <<128, 0, 0, 0, 0, 0, 0, 0>>

\* The integers given to NewIntPlutusData: 0, the head-width boundaries, the
\* int64 and uint64 boundaries and their neighbours beyond 64 bits.
IntInputs ==
    {BigInt(FALSE, m) : m \in {<<>>, <<1>>, <<23>>, <<24>>, <<255>>, <<1, 0>>,
                               <<255, 255>>, <<1, 0, 0>>, <<255, 255, 255, 255>>,
                               <<1, 0, 0, 0, 0>>, MaxUint64, TwoPow64}}
    \cup {BigInt(TRUE, m) : m \in {<<1>>, <<24>>, <<25>>, <<1, 0>>, <<1, 1>>, Int63,
                                   NatAdd(Int63, <<1>>), TwoPow64,
                                   NatAdd(TwoPow64, <<1>>)}}

BytesInputs == {<<>>, <<222, 173, 190, 239>>, [i \in 1..24 |-> i]}

\* Constructor indexes: both tag ranges, the last index whose tag fits 16
\* bits and the ones after it, and the indexes at the end of the uint64 range.
IndexInputs ==
    {<<>>, <<1>>, <<6>>, <<7>>, <<10>>, Nat2Bytes(64262), Nat2Bytes(64263),
     Nat2Bytes(65543), NatSub(MaxUint64, Nat2Bytes(1272)),
     NatSub(MaxUint64, Nat2Bytes(1151)), MaxUint64}

\* The values nested inside the arguments of a constructor call are built
\* from these integers, this byte string and this constructor index; a map
\* key is an integer or the constructor without fields.
ArgInts == {BigInt(FALSE, <<1>>), BigInt(FALSE, <<2>>)}
ArgBytes == {<<222>>}
ArgIndexes == {<<1>>}
IntAtoms == {NewIntPlutusData(Some(i)) : i \in ArgInts}
Atoms == IntAtoms \cup {NewBytesPlutusData(Some(b)) : b \in ArgBytes}
KeyInputs == IntAtoms \cup {NewConstrPlutusData(i, Nil) : i \in ArgIndexes}

RECURSIVE ValuesOfSize(_), SeqsOfSize(_), EntriesOfSize(_)

\* The sequences of values that have n nodes in all.
SeqsOfSize(n) ==
    IF n = 0 THEN {<<>>}
    ELSE UNION {{<<x>> \o s : x \in ValuesOfSize(k), s \in SeqsOfSize(n - k)} : k \in 1..n}

\* The sequences of map entries whose values have n nodes in all.
EntriesOfSize(n) ==
    IF n = 0 THEN {<<>>}
    ELSE UNION {{<<PlutusDataMapEntry(key, x)>> \o s :
                    key \in KeyInputs, x \in ValuesOfSize(k), s \in EntriesOfSize(n - k)}
                : k \in 1..n}

\* The values of n nodes.
ValuesOfSize(n) ==
    (IF n = 1 THEN Atoms ELSE {})
    \cup {NewListPlutusData(Some(s)) : s \in SeqsOfSize(n - 1)}
    \cup {NewConstrPlutusData(i, Some(s)) : i \in ArgIndexes, s \in SeqsOfSize(n - 1)}
    \cup {NewMapPlutusData(Some(e)) : e \in EntriesOfSize(n - 1)}

\* The argument lists of a variadic constructor: none (a nil slice), or a
\* slice (empty or not) spread with "...".
ArgSeqs == {Nil} \cup {Some(s) : s \in UNION {SeqsOfSize(n) : n \in 0..(MaxNodes - 1)}}
ArgEntries == {Nil} \cup {Some(e) : e \in UNION {EntriesOfSize(n) : n \in 0..(MaxNodes - 1)}}

(***************************************************************************)
(* The state: a caller builds a value v with one of the constructors       *)
(* (call names it), marshals it to data, unmarshals data into the          *)
(* receiver p (err is the error returned) and marshals p again to out.     *)
(* A call of one of the package's functions that keep no state is recorded *)
(* as its name op, its arguments args and its result.                      *)
(***************************************************************************)
VARIABLES v, call, data, p, err, out, pc, op, args, result
vars == <<v, call, data, p, err, out, pc, op, args, result>>
codecVars == <<v, call, data, p, err, out, pc>>
funcVars == <<op, args, result>>

Init ==
    /\ v = Zero
    /\ call = "none"
    /\ data = Nil
    /\ p = Zero
    /\ err = NoError
    /\ out = Nil
    /\ pc = "start"
    /\ op = "none"
    /\ args = Nil
    /\ result = Nil

\* v := <the value a constructor returned>
Built(name, value) ==
    /\ v' = value
    /\ call' = name
    /\ pc' = "built"
    /\ UNCHANGED <<data, p, err, out>>
    /\ UNCHANGED funcVars

CallNewConstrPlutusData ==
    /\ pc = "start"
    /\ \E index \in IndexInputs, fields \in ArgSeqs :
          Built("NewConstrPlutusData", NewConstrPlutusData(index, fields))

CallNewIntPlutusData ==
    /\ pc = "start"
    /\ \E i \in {Nil} \cup {Some(n) : n \in IntInputs} : Built("NewIntPlutusData", NewIntPlutusData(i))

CallNewBytesPlutusData ==
    /\ pc = "start"
    /\ \E b \in {Nil} \cup {Some(x) : x \in BytesInputs} : Built("NewBytesPlutusData", NewBytesPlutusData(b))

CallNewListPlutusData ==
    /\ pc = "start"
    /\ \E items \in ArgSeqs : Built("NewListPlutusData", NewListPlutusData(items))

CallNewMapPlutusData ==
    /\ pc = "start"
    /\ \E entries \in ArgEntries : Built("NewMapPlutusData", NewMapPlutusData(entries))

\* data, err := v.MarshalCBOR(); toCBORBytes has no failing path for these values.
CallMarshalCBOR ==
    /\ pc \in {"start", "built"}
    /\ data' = Some(MarshalCBOR(v))
    /\ pc' = "marshalled"
    /\ UNCHANGED <<v, call, p, err, out>>
    /\ UNCHANGED funcVars

\* err := p.UnmarshalCBOR(data), on bytes just encoded or received, or once
\* more on the bytes of the call before.
CallUnmarshalCBOR ==
    /\ pc \in {"marshalled", "received", "unmarshalled"}
    /\ \E o \in UnmarshalCBOR(Get(data)) :
          /\ err' = o.err
          /\ p' = store(p, o)
    /\ pc' = "unmarshalled"
    /\ UNCHANGED <<v, call, data, out>>
    /\ UNCHANGED funcVars

\* out, err := p.MarshalCBOR() on the decoded value.
CallMarshalDecoded ==
    /\ pc = "unmarshalled"
    /\ err = NoError
    /\ out' = Some(MarshalCBOR(p))
    /\ pc' = "reencoded"
    /\ UNCHANGED <<v, call, data, p, err>>
    /\ UNCHANGED funcVars

Next ==
    \/ CallNewConstrPlutusData
    \/ CallNewIntPlutusData
    \/ CallNewBytesPlutusData
    \/ CallNewListPlutusData
    \/ CallNewMapPlutusData
    \/ CallMarshalCBOR
    \/ CallUnmarshalCBOR
    \/ CallMarshalDecoded

Spec == Init /\ [][Next]_vars

(***************************************************************************)
(* Decoding bytes that come from elsewhere: a caller decodes them into a   *)
(* receiver, may decode further bytes into the same receiver, and encodes  *)
(* what the receiver holds.                                                *)
(***************************************************************************)
\* A value written by another encoder: every array (a list, the fields of a
\* constructor) of definite length, or every array of indefinite length.
RECURSIVE frame(_, _), frameAll(_, _)
frameAll(items, indefinite) ==
    IF items = <<>> THEN <<>>
    ELSE frame(Head(items), indefinite) \o frameAll(Tail(items), indefinite)

frame(x, indefinite) ==
    LET array(items) ==
            IF indefinite THEN <<159>> \o frameAll(items, indefinite) \o <<255>>
            ELSE encodeHead(4, Nat2Bytes(Len(items))) \o frameAll(items, indefinite)
    IN  IF ~IsNil(x.Constr)
        THEN tagHeader(constrTag(Get(x.Constr).Index)) \o array(Get(x.Constr).Fields)
        ELSE IF ~IsNil(x.List) THEN array(Get(x.List))
        ELSE MarshalCBOR(x)

One == NewIntPlutusData(Some(BigInt(FALSE, <<1>>)))
Two == NewIntPlutusData(Some(BigInt(FALSE, <<2>>)))

\* Lists and constructors, empty and not, nested in one another.
FramedValues ==
    {NewListPlutusData(Some(<<>>)),
     NewListPlutusData(Some(<<One>>)),
     NewListPlutusData(Some(<<One, Two>>)),
     NewListPlutusData(Some(<<NewListPlutusData(Some(<<>>))>>)),
     NewListPlutusData(Some(<<NewListPlutusData(Some(<<One>>)), NewConstrPlutusData(<<1>>, Nil)>>)),
     NewConstrPlutusData(<<>>, Nil),
     NewConstrPlutusData(<<>>, Some(<<One>>)),
     NewConstrPlutusData(<<1>>, Some(<<NewBytesPlutusData(Some(<<222, 173>>)), Two>>)),
     NewConstrPlutusData(<<10>>, Some(<<NewListPlutusData(Some(<<>>))>>)),
     NewConstrPlutusData(<<>>, Some(<<NewConstrPlutusData(<<1>>, Some(<<NewListPlutusData(Some(<<One>>))>>))>>))}

FramedInputs == {frame(x, i) : x \in FramedValues, i \in BOOLEAN}

\* Tag numbers: the registered ones the library decodes itself (0..3), the
\* edges of the two constructor ranges, numbers between and below them, and
\* the widest.
TagNumbers ==
    {<<>>, <<1>>, <<2>>, <<3>>, <<4>>, <<24>>, <<120>>, <<121>>, <<122>>, <<127>>, <<128>>,
     <<255>>, <<1, 0>>, <<4, 255>>, <<5, 0>>, <<5, 3>>, <<255, 255>>, <<1, 0, 0>>,
     tagNumSelfDescribedCBOR, MaxUint64}

\* What follows the tag: arrays in both framings, with and without items, an
\* array holding a null and one holding an unsupported tag, an integer, byte
\* strings, a text string, a map, null, and a constructor.
TagContents ==
    {<<128>>, <<159, 255>>, <<129, 1>>, <<159, 1, 255>>, <<129, 246>>, <<129, 216, 128, 128>>,
     <<1>>, <<64>>, <<65, 7>>, <<97, 97>>, <<160>>, <<246>>, <<216, 121, 128>>}

TaggedInputs == {encodeHead(6, n) \o c : n \in TagNumbers, c \in TagContents}

\* The item x as a list item, a constructor field and a map value, one and
\* two levels down.
Nestings(x) ==
    {<<159>> \o x \o <<255>>,
     <<129>> \o x,
     <<216, 121, 159, 1>> \o x \o <<255>>,
     <<216, 122, 129, 129>> \o x,
     <<191, 1>> \o x \o <<255>>,
     <<161, 1, 159>> \o x \o <<255>>}

NestedTagInputs ==
    UNION {Nestings(encodeHead(6, n) \o c) : n \in {<<121>>, <<128>>, <<4, 255>>, <<5, 0>>},
                                              c \in {<<128>>, <<1>>, <<246>>}}

\* Null and undefined alone and inside lists, constructors and maps; maps of
\* several entries, with a repeated key, with keys the library cannot hash;
\* integers, bignums and byte strings; items this package has no variant
\* for; and input that is not one well-formed item.
PlainInputs ==
    {<<246>>, <<247>>, <<159, 246, 255>>, <<129, 246>>, <<130, 246, 1>>, <<159, 159, 246, 255, 255>>,
     <<216, 121, 159, 246, 255>>, <<216, 121, 129, 246>>, <<216, 122, 159, 1, 246, 255>>,
     <<161, 246, 246>>, <<191, 1, 246, 255>>,
     <<160>>, <<191, 255>>, <<161, 1, 2>>, <<191, 1, 2, 255>>,
     <<162, 1, 160, 2, 160>>, <<191, 1, 160, 2, 160, 255>>, <<162, 1, 2, 1, 3>>,
     <<161, 128, 1>>, <<161, 216, 121, 128, 1>>, <<161, 65, 7, 1>>,
     <<0>>, <<1>>, <<24, 24>>, <<32>>, <<27, 255, 255, 255, 255, 255, 255, 255, 255>>,
     <<59, 255, 255, 255, 255, 255, 255, 255, 255>>,
     <<194, 73, 1, 0, 0, 0, 0, 0, 0, 0, 0>>, <<195, 73, 1, 0, 0, 0, 0, 0, 0, 0, 0>>,
     <<64>>, <<68, 222, 173, 190, 239>>, <<95, 65, 1, 65, 2, 255>>,
     <<244>>, <<245>>, <<97, 97>>, <<249, 60, 0>>, <<224>>, <<129, 245>>, <<159, 97, 97, 255>>,
     <<>>, <<255>>, <<159>>, <<159, 1>>, <<130, 1>>, <<24>>, <<216, 121>>, <<1, 1>>,
     <<128, 128>>, <<28>>, <<217, 217, 247, 1>>, <<217, 0, 121, 128>>, <<152, 1, 1>>}

WireInputs == FramedInputs \cup TaggedInputs \cup NestedTagInputs \cup PlainInputs

\* The bytes given to a further call on a receiver that has been decoded
\* into: one input for each way UnmarshalCBOR returns, and one of each
\* variant.
AgainInputs ==
    {<<255>>, <<216, 128, 128>>, <<216, 121, 1>>, <<245>>, <<159, 1, 216, 128, 128, 255>>,
     <<2>>, <<65, 9>>, <<129, 2>>, <<161, 2, 2>>, <<216, 123, 128>>, <<246>>}

\* The caller is handed bytes to decode.
CallReceive ==
    /\ pc \in {"start", "unmarshalled"}
    /\ \E b \in IF pc = "start" THEN WireInputs ELSE AgainInputs : data' = Some(b)
    /\ pc' = "received"
    /\ UNCHANGED <<v, call, p, err, out>>
    /\ UNCHANGED funcVars

DecodeNext ==
    \/ CallReceive
    \/ CallUnmarshalCBOR
    \/ CallMarshalDecoded

DecodeSpec == Init /\ [][DecodeNext]_vars

(***************************************************************************)
(* Calls of the functions that keep no state, one after the other.         *)
(***************************************************************************)
\* Values to compare: the zero value, values that differ in one place, two
\* constructor indexes whose tags have the same low 16 bits, and values
\* with two variants set (the fields of PlutusData are exported).
EqualsInputs ==
    {Zero,
     NewConstrPlutusData(<<>>, Nil),
     NewConstrPlutusData(<<1>>, Nil),
     NewConstrPlutusData(<<7>>, Nil),
     NewConstrPlutusData(Nat2Bytes(65543), Nil),
     NewConstrPlutusData(<<>>, Some(<<NewIntPlutusData(Some(BigInt(FALSE, <<1>>)))>>)),
     NewIntPlutusData(Some(BigInt(FALSE, <<1>>))),
     NewIntPlutusData(Some(BigInt(FALSE, <<2>>))),
     NewIntPlutusData(Some(MinusOne)),
     NewBytesPlutusData(Some(<<>>)),
     NewBytesPlutusData(Some(<<1>>)),
     NewListPlutusData(Some(<<>>)),
     NewListPlutusData(Some(<<NewIntPlutusData(Some(BigInt(FALSE, <<1>>)))>>)),
     NewMapPlutusData(Some(<<>>)),
     PlutusData(Some(ConstrPlutusData(<<>>, <<>>)), Some(BigInt(FALSE, <<1>>)), Nil, Nil, Nil),
     PlutusData(Nil, Some(BigInt(FALSE, <<1>>)), Some(<<1>>), Nil, Nil),
     PlutusData(Nil, Nil, Some(<<1>>), Some(<<>>), Nil),
     PlutusData(Nil, Nil, Nil, Some(<<>>), Some(<<>>)),
     PlutusData(Some(ConstrPlutusData(<<1>>, <<>>)), Some(MinusOne), Some(<<>>), Some(<<>>),
                Some(<<>>))}

Called(name, arguments, returned) ==
    /\ pc = "start"
    /\ op' = name
    /\ args' = arguments
    /\ result' = returned
    /\ UNCHANGED codecVars

\* a.Equals(b)
CallEquals ==
    \E a \in EqualsInputs, b \in EqualsInputs : Called("Equals", <<a, b>>, Equals(a, b))

\* The values whose hexadecimal text is taken: one of every variant, empty
\* and not, the zero value, maps of one and two entries, and low and high
\* constructor indexes.
ToHexInputs ==
    {Zero, NewConstrPlutusData(<<>>, Nil), One, NewIntPlutusData(Some(MinusOne)),
     NewIntPlutusData(Some(BigInt(FALSE, TwoPow64))),
     NewBytesPlutusData(Some(<<>>)), NewBytesPlutusData(Some(<<222, 173, 190, 239>>)),
     NewListPlutusData(Some(<<>>)), NewListPlutusData(Some(<<One, Two>>)),
     NewMapPlutusData(Some(<<>>)),
     NewMapPlutusData(Some(<<PlutusDataMapEntry(One, Two)>>)),
     NewMapPlutusData(Some(<<PlutusDataMapEntry(One, Two), PlutusDataMapEntry(Two, One)>>)),
     NewConstrPlutusData(<<>>, Some(<<One, NewConstrPlutusData(<<1>>, Nil)>>)),
     NewConstrPlutusData(<<10>>, Nil),
     NewConstrPlutusData(Nat2Bytes(64263), Nil)}

\* Texts given to FromHex: "d87980", "D87980", "d8799f01ff", "D8799F01FF",
\* "d8799F01Ff", "9f0102ff", "1B0000000100000000", "", "d", "d8798",
\* "g87980", "d8798g", "d8 7980", "0x01", "d87980/:", "d87980@G", "d87980`g".
FromHexInputs ==
    {<<100, 56, 55, 57, 56, 48>>, <<68, 56, 55, 57, 56, 48>>,
     <<100, 56, 55, 57, 57, 102, 48, 49, 102, 102>>, <<68, 56, 55, 57, 57, 70, 48, 49, 70, 70>>,
     <<100, 56, 55, 57, 57, 70, 48, 49, 70, 102>>, <<57, 102, 48, 49, 48, 50, 102, 102>>,
     <<49, 66, 48, 48, 48, 48, 48, 48, 48, 49, 48, 48, 48, 48, 48, 48, 48, 48>>,
     <<>>, <<100>>, <<100, 56, 55, 57, 56>>,
     <<103, 56, 55, 57, 56, 48>>, <<100, 56, 55, 57, 56, 103>>,
     <<100, 56, 32, 55, 57, 56, 48>>, <<48, 120, 48, 49>>,
     <<100, 56, 55, 57, 56, 48, 47, 58>>, <<100, 56, 55, 57, 56, 48, 64, 71>>,
     <<100, 56, 55, 57, 56, 48, 96, 103>>}

\* x.ToHex()
CallToHex ==
    \E x \in ToHexInputs : Called("ToHex", <<x>>, ToHex(x))

\* FromHex(hex), on a text from elsewhere or on the text ToHex returned.
CallFromHex ==
    \E hex \in FromHexInputs \cup (IF op = "ToHex" THEN {result} ELSE {}) :
        \E o \in FromHex(hex) : Called("FromHex", <<hex>>, o)

\* The longest definition name a $ref is made of.
MaxNameLen == 3

\* Definition names: the strings of "a", "/", "~", "0" and "1".
RECURSIVE StringsOver(_, _)
StringsOver(alphabet, n) ==
    IF n = 0 THEN {<<>>}
    ELSE StringsOver(alphabet, n - 1)
         \cup {Append(s, c) : s \in StringsOver(alphabet, n - 1), c \in alphabet}

NameInputs == StringsOver({97, 47, 126, 48, 49}, MaxNameLen)

\* A blueprint's reference to the definition of a name: "#/definitions/"
\* and the name with "~" written "~0" and then "/" written "~1".
pointerTo(name) ==
    definitionsPrefix \o ReplaceAll(ReplaceAll(name, <<126>>, <<126, 48>>), <<47>>, <<126, 49>>)

EmptySchema == Schema(<<>>, "", "", Nil, Nil, Nil, Nil, <<>>, <<>>)

\* Schemas with a $ref: the references to the names, and "Int", "#/a~1b"
\* and "#/definitions/a~" that are none; and a schema without.
RefInputs ==
    {[EmptySchema EXCEPT !.Ref = r] :
        r \in {pointerTo(n) : n \in NameInputs}
               \cup {<<>>, <<73, 110, 116>>, <<35, 47, 97, 126, 49, 98>>,
                     definitionsPrefix \o <<97, 126>>}}

\* The variants of a union: a title, a data type, an index and no field or
\* one.
VariantInputs ==
    {[EmptySchema EXCEPT !.Title = title, !.DataType = dataType, !.Index = index,
                         !.Fields = fields] :
        title \in {"False", "True", "Some", ""},
        dataType \in {"constructor", ""},
        index \in {Some(0)},
        fields \in {<<>>, <<[EmptySchema EXCEPT !.DataType = "integer"]>>}}

\* Schemas given to the predicates: every union of up to two variants, some
\* of three, and schemas that are no union.
UnionInputs ==
    {[EmptySchema EXCEPT !.AnyOf = <<>>]}
    \cup {[EmptySchema EXCEPT !.AnyOf = <<a>>] : a \in VariantInputs}
    \cup {[EmptySchema EXCEPT !.AnyOf = <<a, b>>] : a \in VariantInputs, b \in VariantInputs}
    \cup {[EmptySchema EXCEPT !.AnyOf = <<a, b, a>>] :
             a \in {x \in VariantInputs : x.Title = "False"},
             b \in {x \in VariantInputs : x.Title = "True"}}
    \cup {[EmptySchema EXCEPT !.DataType = d] : d \in {"integer", "bytes", "constructor"}}

\* plutusDataTypeString(pd)
CallPlutusDataTypeString ==
    \E pd \in EqualsInputs :
        Called("plutusDataTypeString", <<pd>>, plutusDataTypeString(pd))

\* s.RefName()
CallRefName ==
    \E s \in RefInputs : Called("RefName", <<s>>, RefName(s))

\* s.IsBoolean()
CallIsBoolean ==
    \E s \in UnionInputs : Called("IsBoolean", <<s>>, IsBoolean(s))

FuncNext ==
    \/ CallEquals
    \/ CallRefName
    \/ CallIsBoolean
    \/ CallPlutusDataTypeString
    \/ CallToHex
    \/ CallFromHex

FuncSpec == Init /\ [][FuncNext]_vars

(***************************************************************************)
(* One call of a predicate of a schema (TestSchema_TypeDetection).         *)
(***************************************************************************)
\* The most fields of a variant.
MaxFields == 2

\* The variants of a union: titled like those of an idiom or not, a
\* constructor or not, without index or with index 0 or 1, with no field
\* and more (an integer, a bytes and a reference in turn).
IdiomVariants ==
    LET field(i) == IF i % 3 = 1 THEN [EmptySchema EXCEPT !.DataType = "integer"]
                    ELSE IF i % 3 = 2 THEN [EmptySchema EXCEPT !.DataType = "bytes"]
                    ELSE [EmptySchema EXCEPT !.Ref = pointerTo(<<97>>)]
    IN  {[EmptySchema EXCEPT !.Title = title, !.DataType = dataType, !.Index = index,
                             !.Fields = [i \in 1..n |-> field(i)]] :
            title \in {"False", "True", "Some", "None", "Active"},
            dataType \in {"constructor", ""},
            index \in {Nil, Some(0), Some(1)},
            n \in 0..MaxFields}

\* Schemas that are classified: every union of up to two of the variants,
\* unions of three, and schemas without anyOf.
IdiomInputs ==
    {[EmptySchema EXCEPT !.AnyOf = <<>>]}
    \cup {[EmptySchema EXCEPT !.AnyOf = <<a>>] : a \in IdiomVariants}
    \cup {[EmptySchema EXCEPT !.AnyOf = <<a, b>>] : a \in IdiomVariants, b \in IdiomVariants}
    \cup {[EmptySchema EXCEPT !.AnyOf = <<a, b, a>>] :
             a \in {x \in IdiomVariants : x.Index = Some(0) /\ x.DataType = "constructor"},
             b \in {x \in IdiomVariants : x.Index = Some(1) /\ x.Fields = <<>>}}
    \cup {[EmptySchema EXCEPT !.DataType = d] : d \in {"integer", "bytes", "constructor"}}

\* A predicate keeps no state: it is called once, when no call was made.
CallIsEnum ==
    op = "none" /\ \E s \in IdiomInputs : Called("IsEnum", <<s>>, IsEnum(s))

CallIsUnit ==
    op = "none" /\ \E s \in IdiomInputs : Called("IsUnit", <<s>>, IsUnit(s))

CallIsBooleanFirst ==
    op = "none" /\ \E s \in IdiomInputs : Called("IsBoolean", <<s>>, IsBoolean(s))

CallIsOption ==
    op = "none" /\ \E s \in IdiomInputs : Called("IsOption", <<s>>, IsOption(s))

CallOptionInnerType ==
    op = "none" /\ \E s \in IdiomInputs : Called("OptionInnerType", <<s>>, OptionInnerType(s))

CallIsSingleConstructor ==
    op = "none" /\ \E s \in IdiomInputs : Called("IsSingleConstructor", <<s>>, IsSingleConstructor(s))

SchemaNext ==
    \/ CallIsEnum
    \/ CallIsUnit
    \/ CallIsBooleanFirst
    \/ CallIsOption
    \/ CallOptionInnerType
    \/ CallIsSingleConstructor

SchemaSpec == Init /\ [][SchemaNext]_vars

(***************************************************************************)
(* The schema resolver: field naming (4.1.1), qualified type names and     *)
(* name collisions (4.1.2) and the resolution of a definitions table       *)
(* (4.1).  The generator's code is not among the sources; this part is     *)
(* written from the specification.  Names are sequences of character       *)
(* codes ("/" is 47, "_" is 95, "A" is 65, "a" is 97, "0" is 48).          *)
(***************************************************************************)
\* The decimal digits of a number.
RECURSIVE itoa(_)
itoa(n) == IF n < 10 THEN <<48 + n>> ELSE itoa(n \div 10) \o <<48 + (n % 10)>>

\* The last path segment of a qualified name: what follows its last "/".
RECURSIVE lastSegment(_)
lastSegment(name) ==
    IF \E i \in 1..Len(name) : name[i] = 47 THEN lastSegment(Tail(name)) ELSE name

\* Mutant of baseName: the whole name a field refers to.
baseNameQualified(field, i) ==
    IF IsRef(field) THEN RefName(field)
    ELSE <<70, 105, 101, 108, 100>> \o itoa(i)

\* The name a field at position i (from 0) has before duplicates are told
\* apart: the last segment of the name it refers to, or "Field<i>".
baseName(field, i) ==
    IF IsRef(field) THEN lastSegment(RefName(field))
    ELSE <<70, 105, 101, 108, 100>> \o itoa(i)

\* Mutant of fieldNames: the first duplicate is numbered 1.
fieldNamesFromOne(fields) ==
    LET RECURSIVE name(_, _)
        name(i, seen) ==
            IF i > Len(fields) THEN <<>>
            ELSE LET base == baseName(fields[i], i - 1)
                     k == Cardinality({j \in 1..Len(seen) : seen[j] = base})
                 IN  <<IF k = 0 THEN base ELSE base \o itoa(k)>>
                     \o name(i + 1, Append(seen, base))
    IN  name(1, <<>>)

\* The names of the fields of one record or tuple, in declaration order:
\* the k-th field of a base name, from the second on, has k appended.
fieldNames(fields) ==
    LET RECURSIVE name(_, _)
        name(i, seen) ==
            IF i > Len(fields) THEN <<>>
            ELSE LET base == baseName(fields[i], i - 1)
                     k == 1 + Cardinality({j \in 1..Len(seen) : seen[j] = base})
                 IN  <<IF k = 1 THEN base ELSE base \o itoa(k)>>
                     \o name(i + 1, Append(seen, base))
    IN  name(1, <<>>)

\* Mutant of goTypeName: the local title alone, without the module path.
goTypeNameLocal(name) ==
    SelectSeq(lastSegment(name), LAMBDA c : c \in (48..57) \cup (65..90) \cup (97..122))

\* The qualified type name of a definition: the segments of its name, each
\* with its first letter in upper case, without "/" and any other character
\* that is no letter or digit.
goTypeName(name) ==
    LET RECURSIVE from(_, _)
        from(s, first) ==
            IF s = <<>> THEN <<>>
            ELSE IF Head(s) = 47 THEN from(Tail(s), TRUE)
            ELSE IF Head(s) \notin (48..57) \cup (65..90) \cup (97..122)
            THEN from(Tail(s), first)
            ELSE <<IF first /\ Head(s) \in 97..122 THEN Head(s) - 32 ELSE Head(s)>>
                 \o from(Tail(s), FALSE)
    IN  from(name, TRUE)

\* The names a schema node refers to through its items, keys, values,
\* fields and variants.
RECURSIVE refsOf(_)
refsOf(s) ==
    IF IsRef(s) THEN {RefName(s)}
    ELSE UNION ({refsOf(Get(x)) : x \in {s.Items, s.Keys, s.Values} \ {Nil}}
                \cup {refsOf(s.Fields[i]) : i \in DOMAIN s.Fields}
                \cup {refsOf(s.AnyOf[i]) : i \in DOMAIN s.AnyOf})

\* A resolution in progress is a record of its status, the names still to
\* resolve (pending), each with the aliases followed to reach it, and the
\* types of the graph so far.  A failed resolution returns no graph.

\* Mutant of resolveNext: an alias is followed without a look at the
\* aliases followed before it.
resolveNextUnguarded(definitions, st, item) ==
    LET n == item[1]
        rest == st.pending \ {item}
        type == [name |-> goTypeName(n), def |-> n]
        failed(e) == [status |-> e, pending |-> {}, graph |-> {}]
        running(pending, graph) == [status |-> "running", pending |-> pending, graph |-> graph]
    IN  IF n \notin DOMAIN definitions THEN failed("DanglingReference")
        ELSE IF IsRef(definitions[n])
        THEN running(rest \cup {<<RefName(definitions[n]), item[2] \cup {n}>>},
                     st.graph \cup {type})
        ELSE IF type \in st.graph THEN running(rest, st.graph)
        ELSE running(rest \cup {<<c, {}>> : c \in refsOf(definitions[n])},
                     st.graph \cup {type})

\* One name resolved.  A name without definition is a DanglingReference; an
\* alias that leads back to an alias followed to reach it, no record or
\* union in between, is an error (the taxonomy has UnsupportedShape for a
\* node that is none of the shapes); a record or union is added to the
\* graph once, with the names it refers to still to resolve.
resolveNext(definitions, st, item) ==
    LET n == item[1]
        chain == item[2]
        rest == st.pending \ {item}
        type == [name |-> goTypeName(n), def |-> n]
        failed(e) == [status |-> e, pending |-> {}, graph |-> {}]
        running(pending, graph) == [status |-> "running", pending |-> pending, graph |-> graph]
    IN  IF n \notin DOMAIN definitions THEN failed("DanglingReference")
        ELSE IF IsRef(definitions[n])
        THEN LET target == RefName(definitions[n])
             IN  IF target \in chain \cup {n} THEN failed("UnsupportedShape")
                 ELSE running(rest \cup {<<target, chain \cup {n}>>}, st.graph \cup {type})
        ELSE IF type \in st.graph THEN running(rest, st.graph)
        ELSE running(rest \cup {<<c, {}>> : c \in refsOf(definitions[n])},
                     st.graph \cup {type})

\* The most slots of a tuple.
MaxSlots == 4

\* The slots of a tuple: references to Int, ByteArray, Int2, Field1 and
\* cardano/assets/PolicyId, and an integer written in line.
SlotInputs ==
    LET refs == {<<73, 110, 116>>, <<66, 121, 116, 101, 65, 114, 114, 97, 121>>,
                 <<73, 110, 116, 50>>, <<70, 105, 101, 108, 100, 49>>,
                 <<99, 97, 114, 100, 97, 110, 111, 47, 97, 115, 115, 101, 116, 115, 47,
                   80, 111, 108, 105, 99, 121, 73, 100>>}
    IN  {[EmptySchema EXCEPT !.Ref = pointerTo(n)] : n \in refs}
        \cup {[EmptySchema EXCEPT !.DataType = "integer"]}

\* Definitions tables: of A; of A and B; of A, B and types/Payout, each an
\* integer, an alias of A, B or Z (that has no definition), a record with a
\* field that refers to one of these, or a union with such a field; and
\* tables with v0_1/X and v01/X.
DefinitionInputs ==
    LET A == <<65>>
        B == <<66>>
        Z == <<90>>
        Payout == <<116, 121, 112, 101, 115, 47, 80, 97, 121, 111, 117, 116>>
        X1 == <<118, 48, 95, 49, 47, 88>>
        X2 == <<118, 48, 49, 47, 88>>
        integer == [EmptySchema EXCEPT !.DataType = "integer"]
        alias(n) == [EmptySchema EXCEPT !.Ref = pointerTo(n)]
        variant(title, index, fields) ==
            [EmptySchema EXCEPT !.Title = title, !.DataType = "constructor",
                                !.Index = Some(index), !.Fields = fields]
        record(n) == [EmptySchema EXCEPT !.AnyOf = <<variant("R", 0, <<alias(n), integer>>)>>]
        union(n) == [EmptySchema EXCEPT !.AnyOf = <<variant("U", 0, <<alias(n)>>),
                                                    variant("V", 1, <<>>)>>]
        nodes == {integer} \cup UNION {{alias(n), record(n), union(n)} : n \in {A, B, Z}}
    IN  UNION {[names -> nodes] : names \in {{A}, {A, B}, {A, B, Payout}}}
        \cup [{X1, X2} -> {integer, record(X1)}]
        \cup [{A, X1} -> {integer, record(X1), alias(X1)}]
        \cup [{A, X1, X2} -> {integer, alias(A)}]

\* fieldNames of the slots of one tuple, of up to MaxSlots slots.
CallFieldNames ==
    /\ op = "none"
    /\ \E n \in 0..MaxSlots :
         \E fields \in [1..n -> SlotInputs] :
            Called("fieldNames", <<fields>>, fieldNames(fields))

\* resolve(definitions, roots) is called, with one root or with every
\* definition a root: two definitions with one qualified name are a
\* NameCollision, and else the roots are the names to resolve.
CallResolve ==
    /\ op = "none"
    /\ \E definitions \in DefinitionInputs :
         \E roots \in {{n} : n \in DOMAIN definitions} \cup {DOMAIN definitions} :
            Called("resolve", <<definitions, roots>>,
                   IF \E a, b \in DOMAIN definitions : a # b /\ goTypeName(a) = goTypeName(b)
                   THEN [status |-> "NameCollision", pending |-> {}, graph |-> {}]
                   ELSE [status |-> "running", pending |-> {<<r, {}>> : r \in roots},
                         graph |-> {}])

\* resolve goes on: a name still to resolve is resolved, in any order, and
\* with none left the graph is returned.
ResolveStep ==
    /\ op = "resolve"
    /\ result.status = "running"
    /\ IF result.pending = {} THEN result' = [result EXCEPT !.status = "done"]
       ELSE \E item \in result.pending : result' = resolveNext(args[1], result, item)
    /\ UNCHANGED <<op, args>>
    /\ UNCHANGED codecVars

ResolverNext ==
    \/ CallFieldNames
    \/ CallResolve
    \/ ResolveStep

\* resolve is a loop that runs on until it returns.
ResolverSpec == Init /\ [][ResolverNext]_vars /\ WF_vars(ResolveStep)

(***************************************************************************)
(* Properties.                                                             *)
(***************************************************************************)
Marshalled == pc \in {"marshalled", "unmarshalled", "reencoded"}
Decoded == pc \in {"unmarshalled", "reencoded"}

RECURSIVE Flatten(_)
Flatten(ss) == IF Len(ss) = 0 THEN <<>> ELSE Head(ss) \o Flatten(Tail(ss))

\* The encodings of the elements of a slice, one after the other.
Encodings(items) == Flatten([i \in 1..Len(items) |-> MarshalCBOR(items[i])])
EntryEncodings(entries) ==
    Flatten([i \in 1..Len(entries) |->
                MarshalCBOR(entries[i].Key) \o MarshalCBOR(entries[i].Value)])

\* Every value inside x, x included.
RECURSIVE SubValues(_)
SubValues(x) ==
    {x}
    \cup (IF IsNil(x.Constr) THEN {}
          ELSE UNION {SubValues(Get(x.Constr).Fields[i]) : i \in 1..Len(Get(x.Constr).Fields)})
    \cup (IF IsNil(x.List) THEN {}
          ELSE UNION {SubValues(Get(x.List)[i]) : i \in 1..Len(Get(x.List))})
    \cup (IF IsNil(x.Map) THEN {}
          ELSE UNION {SubValues(Get(x.Map)[i].Key) \cup SubValues(Get(x.Map)[i].Value)
                      : i \in 1..Len(Get(x.Map))})

\* x is an Integer, ByteString, List, Map or Constructor, and so is every
\* value inside it.
Proper(x) == \A y \in SubValues(x) : plutusDataTypeString(y) # "null"

Unit0 == NewConstrPlutusData(<<>>, Nil)
Unit1 == NewConstrPlutusData(<<1>>, Nil)

\* C1: decoding the encoding of a value built from Integer, ByteString, List,
\* Map and Constructor succeeds and returns a value of the same kind with the
\* same contents, in the same order.
C1_RoundTripStructural ==
    (Decoded /\ Proper(v)) => (err = NoError /\ p = v)

\* C2: encoding, decoding and encoding again gives the bytes of the first
\* encoding, for every value, the zero value included.
C2_RoundTripByteExact ==
    pc = "reencoded" => out = data

\* C3: a constructor is encoded as its tag header followed by 0x80 when it
\* has no fields and by 0x9f, the encodings of the fields in order and 0xff
\* otherwise, at every nesting level; Constructor(0, []) is d8 79 80,
\* Constructor(1, []) is d8 7a 80 and Constructor(0, [Constructor(1, [])]) is
\* d8 79 9f d8 7a 80 ff.
ConstructorFraming(c) ==
    tagHeader(constrTag(c.Index))
    \o (IF Len(c.Fields) = 0 THEN <<128>> ELSE <<159>> \o Encodings(c.Fields) \o <<255>>)

C3_ConstructorFraming ==
    Marshalled =>
        /\ ~IsNil(v.Constr) => data = Some(ConstructorFraming(Get(v.Constr)))
        /\ \A x \in SubValues(v) :
              ~IsNil(x.Constr) => MarshalCBOR(x) = ConstructorFraming(Get(x.Constr))
        /\ v = Unit0 => data = Some(<<216, 121, 128>>)
        /\ v = Unit1 => data = Some(<<216, 122, 128>>)
        /\ v = NewConstrPlutusData(<<>>, Some(<<Unit1>>))
              => data = Some(<<216, 121, 159, 216, 122, 128, 255>>)

C3_Witness ==
    /\ pc = "marshalled"
    /\ v = NewConstrPlutusData(<<>>, Some(<<Unit1>>))
    /\ data = Some(<<216, 121, 159, 216, 122, 128, 255>>)

\* C4: a List with zero items, built by NewListPlutusData without arguments
\* or from an empty slice, is encoded as the single byte 0x80, and a List with
\* items as 0x9f, the encodings of the items in order and 0xff.
C4_ListFraming ==
    (Marshalled /\ call = "NewListPlutusData") =>
        LET items == IF IsNil(v.List) THEN <<>> ELSE Get(v.List)
        IN  data = Some(IF Len(items) = 0 THEN <<128>>
                        ELSE <<159>> \o Encodings(items) \o <<255>>)

\* C5: encoding a constructor of index i and decoding the bytes returns a
\* constructor of index i, for every i of the unsigned 64-bit range (stated
\* here for every field list on which decoding succeeds, and with success
\* required for the constructor without fields).
C5_ConstructorIndexRoundTrip ==
    (Decoded /\ call = "NewConstrPlutusData") =>
        /\ Len(Get(v.Constr).Fields) = 0 => err = NoError
        /\ err = NoError =>
              /\ ~IsNil(p.Constr)
              /\ Get(p.Constr).Index = Get(v.Constr).Index

\* C6: the tag header of a constructor is never wider than its tag needs: one
\* byte for a tag below 24, 0xd8 and one byte for a tag below 256, 0xd9 and
\* two big-endian bytes otherwise; the indexes 0..6 use the 0xd8 form.
HeaderWidth(initial) ==
    CASE initial < 216 -> 1 [] initial = 216 -> 2 [] initial = 217 -> 3
      [] initial = 218 -> 5 [] OTHER -> 9

MinimalWidth(tag) ==
    IF NatLess(tag, <<24>>) THEN 1
    ELSE IF Len(tag) = 1 THEN 2
    ELSE IF Len(tag) = 2 THEN 3
    ELSE IF Len(tag) <= 4 THEN 5
    ELSE 9

C6_MinimalTagWidth ==
    (Marshalled /\ ~IsNil(v.Constr)) =>
        LET index == Get(v.Constr).Index
            tag == constrTag(index)
            d == Get(data)
        IN  /\ d[1] \div 32 = 6
            /\ HeaderWidth(d[1]) <= MinimalWidth(tag)
            /\ NatLess(tag, <<24>>) => d[1] = 192 + Bytes2Nat(tag)
            /\ (~NatLess(tag, <<24>>) /\ Len(tag) = 1) => (d[1] = 216 /\ d[2] = tag[1])
            /\ Len(tag) >= 2 =>
                  (d[1] = 217 /\ <<d[2], d[3]>> = LastBytes(tag, 2))
            /\ NatLeq(index, <<6>>) => (d[1] = 216 /\ d[2] = 121 + Bytes2Nat(index))

C6_Witness ==
    /\ pc = "marshalled"
    /\ ~IsNil(v.Constr)
    /\ Get(v.Constr).Index = <<6>>
    /\ SubSeq(Get(data), 1, 2) = <<216, 127>>

\* C7: a Map with zero entries, built by NewMapPlutusData without arguments
\* or from an empty slice, is encoded as the single byte 0xa0, and a Map with
\* entries as 0xbf, each entry's key and value encodings in the value's own
\* order, and 0xff.
C7_MapFraming ==
    (Marshalled /\ call = "NewMapPlutusData") =>
        LET entries == IF IsNil(v.Map) THEN <<>> ELSE Get(v.Map)
        IN  data = Some(IF Len(entries) = 0 THEN <<160>>
                        ELSE <<191>> \o EntryEncodings(entries) \o <<255>>)

\* C8: decoding the encoding of a Map of two or more entries with distinct
\* keys lists the entries in the order they had in the encoded value.
DistinctKeys(entries) ==
    \A i, j \in 1..Len(entries) : entries[i].Key = entries[j].Key => i = j

C8_MapOrderOnDecode ==
    (/\ Decoded
     /\ call = "NewMapPlutusData"
     /\ ~IsNil(v.Map)
     /\ Len(Get(v.Map)) >= 2
     /\ DistinctKeys(Get(v.Map))
     /\ err = NoError)
        => p.Map = v.Map

\* C9: an Integer is encoded in the shortest form, as a CBOR integer of major
\* type 0 (0 <= n < 2^64) or 1 (-2^64 <= n < 0) and as a bignum of tag 2 or 3
\* outside that range, and decoding the encoding returns the same Integer.
ShortestHead(major, arg) ==
    IF NatLess(arg, <<24>>) THEN <<major * 32 + Bytes2Nat(arg)>>
    ELSE IF Len(arg) = 1 THEN <<major * 32 + 24>> \o arg
    ELSE IF Len(arg) = 2 THEN <<major * 32 + 25>> \o arg
    ELSE IF Len(arg) <= 4 THEN <<major * 32 + 26>> \o PadLeft(arg, 4)
    ELSE <<major * 32 + 27>> \o PadLeft(arg, 8)

IntegerEncoding(n) ==
    LET arg == IF n.neg THEN NatSub(n.mag, <<1>>) ELSE n.mag
    IN  IF NatLess(arg, TwoPow64)
        THEN ShortestHead(IF n.neg THEN 1 ELSE 0, arg)
        ELSE <<192 + (IF n.neg THEN 3 ELSE 2)>> \o ShortestHead(2, Nat2Bytes(Len(arg))) \o arg

C9_IntegerEncoding ==
    (call = "NewIntPlutusData" /\ ~IsNil(v.Integer)) =>
        /\ Marshalled => data = Some(IntegerEncoding(Get(v.Integer)))
        /\ Decoded => (err = NoError /\ p = v)

C9_Witness ==
    /\ Decoded
    /\ v = NewIntPlutusData(Some(BigInt(TRUE, NatAdd(TwoPow64, <<1>>))))
    /\ Get(data)[1] = 195
    /\ p = v

\* C10: the zero value is encoded as Constructor 0 without fields, d8 79 80,
\* the encoding of NewConstrPlutusData(0).
C10_DefaultValue ==
    (Marshalled /\ v = Zero) =>
        /\ data = Some(<<216, 121, 128>>)
        /\ data = Some(MarshalCBOR(Unit0))

Unmarshalling == pc' = "unmarshalled"

\* C12: null alone, as a list item and as a constructor field is decoded as
\* Constructor(0, []), which is encoded again as d8 79 80; and no value the
\* decoder returns, and no value inside it, is encoded as null.
NullCases ==
    {[bytes |-> <<246>>, value |-> Unit0, again |-> <<216, 121, 128>>],
     [bytes |-> <<159, 246, 255>>, value |-> NewListPlutusData(Some(<<Unit0>>)),
      again |-> <<159, 216, 121, 128, 255>>],
     [bytes |-> <<129, 246>>, value |-> NewListPlutusData(Some(<<Unit0>>)),
      again |-> <<159, 216, 121, 128, 255>>],
     [bytes |-> <<130, 246, 1>>, value |-> NewListPlutusData(Some(<<Unit0, One>>)),
      again |-> <<159, 216, 121, 128, 1, 255>>],
     [bytes |-> <<216, 121, 159, 246, 255>>, value |-> NewConstrPlutusData(<<>>, Some(<<Unit0>>)),
      again |-> <<216, 121, 159, 216, 121, 128, 255>>],
     [bytes |-> <<216, 121, 129, 246>>, value |-> NewConstrPlutusData(<<>>, Some(<<Unit0>>)),
      again |-> <<216, 121, 159, 216, 121, 128, 255>>],
     [bytes |-> <<216, 122, 159, 1, 246, 255>>,
      value |-> NewConstrPlutusData(<<1>>, Some(<<One, Unit0>>)),
      again |-> <<216, 122, 159, 1, 216, 121, 128, 255>>]}

C12_NullLeniency ==
    /\ Decoded =>
          \A c \in NullCases : data = Some(c.bytes) => (err = NoError /\ p = c.value)
    /\ pc = "reencoded" =>
          /\ \A c \in NullCases : data = Some(c.bytes) => out = Some(c.again)
          /\ out # Some(<<246>>)
          /\ \A x \in SubValues(p) : MarshalCBOR(x) # <<246>>

C12_Witness ==
    /\ pc = "reencoded"
    /\ data = Some(<<216, 122, 159, 1, 246, 255>>)
    /\ out = Some(<<216, 122, 159, 1, 216, 121, 128, 255>>)

\* C13: a list or a constructor whose arrays are all of definite length and
\* the same one with arrays of indefinite length decode to the same value,
\* which is encoded again in the encoder's one form; d8 79 81 01 and
\* d8 79 9f 01 ff, and d8 79 80 and d8 79 9f ff, are two such pairs.
C13_BothFramings ==
    Decoded =>
        /\ \A x \in FramedValues :
              (data = Some(frame(x, FALSE)) \/ data = Some(frame(x, TRUE))) =>
                  /\ err = NoError
                  /\ p = x
                  /\ pc = "reencoded" => out = Some(MarshalCBOR(x))
        /\ data \in {Some(<<216, 121, 129, 1>>), Some(<<216, 121, 159, 1, 255>>)} =>
              /\ p = NewConstrPlutusData(<<>>, Some(<<One>>))
              /\ pc = "reencoded" => out = Some(<<216, 121, 159, 1, 255>>)
        /\ data \in {Some(<<216, 121, 128>>), Some(<<216, 121, 159, 255>>)} =>
              /\ p = Unit0
              /\ pc = "reencoded" => out = Some(<<216, 121, 128>>)

C13_Witness ==
    /\ pc = "reencoded"
    /\ data = Some(<<216, 121, 129, 1>>)
    /\ out = Some(<<216, 121, 159, 1, 255>>)

\* C14: a tag that is neither 2 or 3 nor in 121..127 nor 1280 or above makes
\* the decode return an error and leave the receiver as it was, whatever the
\* tag's content and also when the tag is an item, a field or a map value
\* below the top; a tag of 121..127 or of 1280 or above on an array whose
\* items decode is accepted, as the constructor of the index the encoder's
\* arithmetic inverts to (tag 55799 at the top is dropped by the library).
SupportedTag(n) ==
    \/ NatLeq(<<121>>, n) /\ NatLeq(n, <<127>>)
    \/ NatLeq(<<5, 0>>, n)

IndexOfTag(n) ==
    IF NatLeq(n, <<127>>) THEN NatSub(n, <<121>>) ELSE NatAdd(NatSub(n, <<5, 0>>), <<7>>)

ArraysOfItems == {<<128>>, <<159, 255>>, <<129, 1>>, <<159, 1, 255>>, <<129, 246>>}

C14_UnsupportedTag ==
    [][Unmarshalling =>
          /\ \A n \in TagNumbers, c \in TagContents :
                data = Some(encodeHead(6, n) \o c) =>
                    /\ (~SupportedTag(n) /\ n \notin {<<2>>, <<3>>}) =>
                          (err' # NoError /\ p' = p)
                    /\ (SupportedTag(n) /\ c \in ArraysOfItems) =>
                          /\ err' = NoError
                          /\ n # tagNumSelfDescribedCBOR =>
                                /\ ~IsNil(p'.Constr)
                                /\ Get(p'.Constr).Index = IndexOfTag(n)
          /\ \A n \in {<<128>>, <<4, 255>>}, c \in {<<128>>, <<1>>, <<246>>} :
                data \in {Some(b) : b \in Nestings(encodeHead(6, n) \o c)} =>
                    (err' # NoError /\ p' = p)]_vars

C14_Witness ==
    /\ pc = "unmarshalled"
    /\ data = Some(<<216, 121, 159, 1, 217, 4, 255, 128, 255>>)
    /\ err = UnsupportedTag

\* C15: a tag of 121..127 or of 1280 or above whose content is an integer, a
\* byte string, a text string, a map, null or another tag makes the decode
\* return an error and leave the receiver as it was, at the top and below
\* it; so does a field that fails to decode.
NotArrays == {<<1>>, <<64>>, <<65, 7>>, <<97, 97>>, <<160>>, <<246>>, <<216, 121, 128>>}

VariantsSet(x) ==
    Cardinality({f \in {"Constr", "Integer", "ByteString", "List", "Map"} : ~IsNil(x[f])})

C16_FailureAtomicity ==
    [][Unmarshalling =>
          IF err' # NoError THEN p' = p
          ELSE /\ p' \in {o.val : o \in {r \in UnmarshalCBOR(Get(data)) : r.err = NoError}}
               /\ VariantsSet(p') = 1]_vars

C16_Witness ==
    /\ pc = "unmarshalled"
    /\ err # NoError
    /\ data = Some(<<159, 1, 216, 128, 128, 255>>)
    /\ ~IsNil(p.Map)

\* C17: a second UnmarshalCBOR call on the bytes of the first fails when the
\* first failed, and otherwise returns a value Equal to the first's.
C17_DecodeDeterminism ==
    [][(pc = "unmarshalled" /\ Unmarshalling) =>
          /\ (err' = NoError) <=> (err = NoError)
          /\ err' = NoError => Equals(p', p)]_vars

\* C18: ToHex(x) is the encoding of x in lower-case hexadecimal digits;
\* FromHex of that text succeeds with a value Equal to x; FromHex returns the
\* same for a text and for the text in lower case; and FromHex of a text of
\* odd length or with a character that is no hexadecimal digit returns an
\* error and the zero value.
DigitValue(c) == IF c <= 57 THEN c - 48 ELSE c - 87
LowerCase(s) == [i \in 1..Len(s) |-> IF s[i] >= 65 /\ s[i] <= 90 THEN s[i] + 32 ELSE s[i]]
IsHexDigit(c) == c \in (48..57) \cup (65..70) \cup (97..102)

ToHexIsLowerCaseHex ==
    op = "ToHex" =>
        LET bytes == MarshalCBOR(args[1])
        IN  /\ Len(result) = 2 * Len(bytes)
            /\ \A i \in 1..Len(result) : result[i] \in (48..57) \cup (97..102)
            /\ \A i \in 1..Len(bytes) :
                  16 * DigitValue(result[2 * i - 1]) + DigitValue(result[2 * i]) = bytes[i]

FromHexInvertsToHex ==
    op = "FromHex" =>
        \A x \in ToHexInputs :
            args[1] = ToHex(x) => (result.err = NoError /\ Equals(result.val, x))

FromHexIgnoresCase ==
    op = "FromHex" => result \in FromHex(LowerCase(args[1]))

FromHexRejects ==
    op = "FromHex" =>
        LET hex == args[1]
        IN  (Len(hex) % 2 = 1 \/ \E i \in 1..Len(hex) : ~IsHexDigit(hex[i])) =>
                (result.err # NoError /\ result.val = Zero)

C18_HexPair ==
    /\ ToHexIsLowerCaseHex
    /\ FromHexInvertsToHex
    /\ FromHexIgnoresCase
    /\ FromHexRejects

\* C19: RefName of the reference to a definition name is the name, for
\* names with "/", "~" and the sequences "~0" and "~1" in them too, and
\* RefName of a schema without $ref is the empty string.
C19_RefName ==
    op = "RefName" =>
        /\ \A n \in NameInputs : args[1].Ref = pointerTo(n) => result = n
        /\ args[1].Ref = <<>> => result = <<>>

C19_Witness ==
    /\ op = "RefName"
    /\ args[1].Ref = definitionsPrefix \o <<126, 48, 49, 126, 49>>
    /\ result = <<126, 49, 47>>

\* C20: IsBoolean is true exactly for a union of two variants titled False
\* and True, in that order, each a constructor without fields.
BooleanIdiom(s) ==
    /\ Len(s.AnyOf) = 2
    /\ s.AnyOf[1].Title = "False"
    /\ s.AnyOf[2].Title = "True"
    /\ \A i \in 1..2 : s.AnyOf[i].DataType = "constructor" /\ Len(s.AnyOf[i].Fields) = 0

C20_IsBoolean ==
    op = "IsBoolean" => (result <=> BooleanIdiom(args[1]))

\* C11: Equals(a, b) is true exactly when the encodings of a and b are the
\* same bytes, so a value equals itself, Equals(b, a) is Equals(a, b), Equals
\* carries over from a, b and b, c to a, c, and two values that differ in
\* structure and have one encoding are Equal.
EqualsIsEncodingEquality ==
    op = "Equals" =>
        LET a == args[1]
            b == args[2]
        IN  /\ result = (MarshalCBOR(a) = MarshalCBOR(b))
            /\ a = b => result
            /\ result => \A c \in EqualsInputs :
                            MarshalCBOR(b) = MarshalCBOR(c) => Equals(a, c)

C11_Equals ==
    /\ []EqualsIsEncodingEquality
    /\ [][(op = "Equals" /\ op' = "Equals" /\ args' = <<args[2], args[1]>>)
            => result' = result]_vars

C11_Witness ==
    /\ op = "Equals"
    /\ args[1] # args[2]
    /\ args[1].Integer = args[2].Integer
    /\ ~IsNil(args[1].Integer)
    /\ result

\* C21: IsOption is true exactly for a union of two variants, Some with one
\* field and None with none, in that order; OptionInnerType returns Some's
\* field for a schema IsOption accepts, never nil, and nil for any other.
OptionIdiom(s) ==
    /\ Len(s.AnyOf) = 2
    /\ s.AnyOf[1].Title = "Some"
    /\ s.AnyOf[2].Title = "None"
    /\ Len(s.AnyOf[1].Fields) = 1
    /\ Len(s.AnyOf[2].Fields) = 0

C21_OptionIdiom ==
    /\ op = "IsOption" => (result <=> OptionIdiom(args[1]))
    /\ op = "OptionInnerType" =>
           IF IsOption(args[1])
           THEN /\ Len(args[1].AnyOf[1].Fields) > 0
                /\ result = Some(args[1].AnyOf[1].Fields[1])
           ELSE result = Nil

\* C22: IsUnit is true exactly for a union of one variant that is a
\* constructor with the index 0 written out and no fields; any other union
\* of one constructor is not Unit and is a single constructor; a union of
\* two variants or more is neither.
UnitIdiom(s) ==
    /\ Len(s.AnyOf) = 1
    /\ s.AnyOf[1].DataType = "constructor"
    /\ s.AnyOf[1].Index = Some(0)
    /\ Len(s.AnyOf[1].Fields) = 0

C22_UnitOrRecord ==
    /\ op = "IsUnit" => (result <=> UnitIdiom(args[1]))
    /\ op = "IsSingleConstructor" =>
           LET s == args[1]
           IN  /\ (Len(s.AnyOf) = 1 /\ s.AnyOf[1].DataType = "constructor" /\ ~UnitIdiom(s))
                      => (result /\ ~IsUnit(s))
               /\ Len(s.AnyOf) >= 2 => (~result /\ ~IsUnit(s))

C22_Witness ==
    /\ op = "IsSingleConstructor"
    /\ Len(args[1].AnyOf) = 1
    /\ args[1].AnyOf[1].Index = Nil
    /\ args[1].AnyOf[1].Fields = <<>>
    /\ result
    /\ ~IsUnit(args[1])

FieldOrder == <<"Constr", "Integer", "ByteString", "List", "Map">>

FirstSetIndex(x) ==
    LET set == {i \in 1..5 : ~IsNil(x[FieldOrder[i]])}
    IN  IF set = {} THEN 0 ELSE CHOOSE i \in set : \A j \in set : i <= j

OnlyFirstSet(x) ==
    IF FirstSetIndex(x) = 0 THEN Zero
    ELSE LET f == FieldOrder[FirstSetIndex(x)] IN [Zero EXCEPT ![f] = x[f]]

VariantNames == <<"constructor", "integer", "bytes", "list", "map">>

C30_VariantPriority ==
    /\ op = "Equals" =>
           (OnlyFirstSet(args[1]) = OnlyFirstSet(args[2]) => result)
    /\ op = "plutusDataTypeString" =>
           LET x == args[1]
           IN  /\ MarshalCBOR(x) = MarshalCBOR(OnlyFirstSet(x))
               /\ result = IF FirstSetIndex(x) = 0 THEN "null"
                            ELSE VariantNames[FirstSetIndex(x)]

C30_Witness ==
    /\ op = "Equals"
    /\ args[1] # args[2]
    /\ ~IsNil(args[1].List) /\ ~IsNil(args[1].Map)
    /\ IsNil(args[2].Map)
    /\ result

\* C28: decoding the encoding of a Map returns a Map with as many entries as
\* were encoded, every key with the value it had, also when two entries
\* have equal keys: the decoded entries are the encoded ones in some order.
C28_MapMultiplicity ==
    (Decoded /\ call = "NewMapPlutusData" /\ ~IsNil(v.Map)) =>
        /\ err = NoError
        /\ ~IsNil(p.Map)
        /\ Len(Get(p.Map)) = Len(Get(v.Map))
        /\ \E o \in Orders(Len(Get(v.Map))) :
               \A i \in 1..Len(Get(v.Map)) : Get(p.Map)[i] = Get(v.Map)[o[i]]

\* The last segment of a name, said without recursion: what follows the
\* last "/" of the name.
LastSegmentOf(n) ==
    LET slashes == {i \in 1..Len(n) : n[i] = 47}
        last == IF slashes = {} THEN 0 ELSE CHOOSE i \in slashes : \A j \in slashes : j <= i
    IN  SubSeq(n, last + 1, Len(n))

NameInt == <<73, 110, 116>>
NameByteArray == <<66, 121, 116, 101, 65, 114, 114, 97, 121>>
NamePolicyId == <<80, 111, 108, 105, 99, 121, 73, 100>>
NameField == <<70, 105, 101, 108, 100>>
NameCardanoAssetsPolicyId ==
    <<99, 97, 114, 100, 97, 110, 111, 47, 97, 115, 115, 101, 116, 115, 47>> \o NamePolicyId

\* The tuples of TestTupleFieldNamesDuplicates.
RefsTo(names) ==
    [i \in 1..Len(names) |-> [EmptySchema EXCEPT !.Ref = pointerTo(names[i])]]
ThreeInts == RefsTo(<<NameInt, NameInt, NameInt>>)
MixedDuplicates == RefsTo(<<NameInt, NameByteArray, NameInt, NameByteArray>>)
RefCardanoAssetsPolicyId == pointerTo(NameCardanoAssetsPolicyId)

\* C23: in one tuple the first field of a base name keeps it and the k-th
\* field of that base name, k >= 2, is named with k appended, counted for
\* each base name on its own: Int, Int, Int give Int, Int2, Int3 and Int,
\* ByteArray, Int, ByteArray give Int, ByteArray, Int2, ByteArray2.
C23_DuplicateNaming ==
    op = "fieldNames" =>
        LET fields == args[1]
        IN  /\ Len(result) = Len(fields)
            /\ \A base \in {[i \in 1..Len(fields) |-> baseName(fields[i], i - 1)]} :
                  \A i \in 1..Len(fields) :
                     LET nth == Cardinality({j \in 1..i : base[j] = base[i]})
                     IN  result[i] = IF nth = 1 THEN base[i] ELSE base[i] \o <<48 + nth>>
            /\ fields = ThreeInts
                  => result = <<NameInt, NameInt \o <<50>>, NameInt \o <<51>>>>
            /\ fields = MixedDuplicates
                  => result = <<NameInt, NameByteArray, NameInt \o <<50>>, NameByteArray \o <<50>>>>

C23_Witness ==
    /\ op = "fieldNames"
    /\ Len(args[1]) = 4
    /\ result = <<NameInt, NameByteArray, NameInt \o <<50>>, NameByteArray \o <<50>>>>

C25_UniqueFieldNames ==
    op = "fieldNames" =>
        \A i, j \in 1..Len(result) : result[i] = result[j] => i = j

\* The qualified type name of a definition, said without recursion: the
\* letters and digits of its name, in upper case where no letter or digit
\* comes before in the same segment.
TypeNameOf(n) ==
    LET alnum(c) == c \in (48..57) \cup (65..90) \cup (97..122)
        kept == SelectSeq([i \in 1..Len(n) |-> i], LAMBDA i : alnum(n[i]))
        segment(i) == {j \in 1..(i - 1) : \A m \in j..(i - 1) : n[m] # 47}
        first(i) == \A j \in segment(i) : ~alnum(n[j])
    IN  [k \in 1..Len(kept) |->
            IF first(kept[k]) /\ n[kept[k]] \in 97..122 THEN n[kept[k]] - 32 ELSE n[kept[k]]]

Collision(definitions) ==
    \E a, b \in DOMAIN definitions : a # b /\ TypeNameOf(a) = TypeNameOf(b)

RECURSIVE AliasSteps(_, _, _)
AliasSteps(definitions, n, k) ==
    \/ k = 0
    \/ /\ n \in DOMAIN definitions
       /\ IsRef(definitions[n])
       /\ AliasSteps(definitions, RefName(definitions[n]), k - 1)

AliasCycleFrom(definitions, n) ==
    AliasSteps(definitions, n, Cardinality(DOMAIN definitions) + 1)

Resolved == op = "resolve" /\ result.status # "running"

\* C27: every resolution returns; it returns an error when a root is an
\* alias of itself, at once or through aliases only; and a table without
\* such a cycle, with every reference defined and no two definitions of one
\* type name, is resolved, its cycles through records and unions included.
C27_ResolutionTerminates ==
    /\ (op = "resolve") ~> Resolved
    /\ [](Resolved =>
            /\ (\E r \in args[2] : AliasCycleFrom(args[1], r)) => result.status # "done"
            /\ (/\ ~Collision(args[1])
                /\ \A n \in DOMAIN args[1] :
                      /\ refsOf(args[1][n]) \subseteq DOMAIN args[1]
                      /\ ~AliasCycleFrom(args[1], n))
                  => result.status = "done")

C27_Witness ==
    /\ Resolved
    /\ result.status = "done"
    /\ \E n \in args[2] : ~IsRef(args[1][n]) /\ n \in refsOf(args[1][n])
====
